---------------------------- MODULE Spec2Model ----------------------------
(***************************************************************************)
(* A model of fetch_data.py (Colorado snow-course download script):        *)
(*   get_colorado_sites, download_site_data, parse_snow_data,              *)
(*   pivot_to_long_format and download_all_colorado_sites.                 *)
(*                                                                         *)
(* Python values are records tagged with "kind"; a call's outcome is a     *)
(* record [exc, val], exc = "none" when the call returned val.  Library    *)
(* calls (requests, pandas.read_csv, DataFrame operations) are modelled by *)
(* what they do on the inputs enumerated here.                             *)
(***************************************************************************)
EXTENDS Integers, Sequences, FiniteSets, TLC

VARIABLES
    page,       \* the directory page the remote server serves (environment)
    pc,         \* download_all_colorado_sites: control position
    exc,        \* download_all_colorado_sites: the exception that ended it
    exc_at,     \* where it was raised: "directory" or "station"
    sites_df,   \* download_all_colorado_sites: sites_df
    idx,        \* number of stations whose loop body has completed
    all_data,   \* download_all_colorado_sites: all_data
    retval,     \* download_all_colorado_sites: the returned value
    writes,     \* the to_csv calls made, in order (the tables written)
    calls,      \* the component calls made by the loop, in order
    dl,         \* download_site_data under test: calls, requests, result
    ps,         \* parse_snow_data under test: argument and result
    pv          \* pivot_to_long_format under test: argument and result

vars == <<page, pc, exc, exc_at, sites_df, idx, all_data, retval, writes,
          calls, dl, ps, pv>>

aggVars == <<page, pc, exc, exc_at, sites_df, idx, all_data, retval, writes, calls>>

----------------------------------------------------------------------------
(* Python values *)

None == [kind |-> "None"]

Returned(v) == [exc |-> "none", val |-> v]

Raised(e) == [exc |-> e, val |-> None]

\* pandas.DataFrame: ordered column names and ordered rows (column -> value)
DataFrame(cols, rws) == [kind |-> "df", columns |-> cols, rows |-> rws]

NaN == "NaN"

Stations == {"05K04", "06J15"}

----------------------------------------------------------------------------
(* Report text.  A str is the sequence of its lines (str.split('\n'));     *)
(* a line is its first comma-separated field and its number of fields;     *)
(* fields after the first are non-empty in the inputs enumerated.          *)

Str(lines) == [kind |-> "str", lines |-> lines]

Line(first, n) == [first |-> first, n |-> n]

BlankLine == Line("", 1)

\* the empty string '' splits into one empty line
EmptyStr == Str(<<BlankLine>>)

\* lines 90 and 126
month_names == <<"Jan", "Feb", "Mar", "Apr", "May", "Jun">>

\* lines 95-97: the three columns of a month, in order
MonthColumns(month) ==
    <<month \o "_date", month \o "_snow_depth_in", month \o "_swe_in">>

RECURSIVE ExtendColumns(_, _)
ExtendColumns(cols, months) ==
    IF months = <<>> THEN cols
    ELSE ExtendColumns(cols \o MonthColumns(Head(months)), Tail(months))

\* lines 91-98
new_columns == ExtendColumns(<<"water_year">>, month_names)

NewColumnsLen == Len(new_columns)

FirstFields == {"Water Year", " Water Year", "", "2001"}

FieldCounts == {1, NewColumnsLen, NewColumnsLen + 1}

Lines == {Line(f, n) : f \in FirstFields, n \in FieldCounts}

\* bool(raw_data) of line 66 and line 186: None and '' are falsy
Truthy(v) == v # None /\ v # EmptyStr

\* line.startswith('Water Year,'): the first field is exactly 'Water Year'
\* and a comma follows it, i.e. the line has a second field
StartsWithMarkerLoose(line) ==
    line.first \in {"Water Year", " Water Year"} /\ line.n >= 2

StartsWithMarker(line) == line.first = "Water Year" /\ line.n >= 2

----------------------------------------------------------------------------
(* download_site_data *)

\* HTTP statuses the report server may answer with
StatusCodes == {200, 204, 304, 404, 500, 503}

HeaderLine == Line("Water Year", NewColumnsLen)

DescLine == Line("", NewColumnsLen)

\* report bodies served: a well-formed report, a report of one year, a page
\* without the marker, an empty body, a header of the wrong width, a report
\* whose data lines carry a trailing comma
Reports ==
    { Str(<<Line("2001", 1), HeaderLine, DescLine,
            Line("2001", NewColumnsLen), Line("2001", NewColumnsLen), BlankLine>>),
      Str(<<HeaderLine, DescLine, Line("2001", NewColumnsLen)>>),
      Str(<<Line("2001", 1), Line("2001", 1)>>),
      EmptyStr,
      Str(<<Line("Water Year", NewColumnsLen + 1), DescLine, Line("2001", NewColumnsLen)>>),
      Str(<<HeaderLine, DescLine, Line("2001", NewColumnsLen + 1)>>) }

\* what requests.get(url, timeout=30) meets on the network
NetOutcomes ==
    {[kind |-> "Timeout"], [kind |-> "ConnectionError"]}
    \cup {[kind |-> "response", status |-> s, text |-> t] : s \in StatusCodes, t \in Reports}

\* requests.get: raises on timeout and connection failure, else the response
requests_get(net) ==
    IF net.kind = "response" THEN Returned(net) ELSE Raised(net.kind)

\* Response.raise_for_status: HTTPError for 4xx and 5xx
RaisesNever(status) == FALSE

RaisesForStatus(status) == 400 <= status /\ status < 600

\* lines 57-59: the body of the try block
download_try(site_num, net) ==
    LET response == requests_get(net)
    IN  IF response.exc # "none" THEN response
        ELSE IF RaisesForStatus(response.val.status) THEN Raised("HTTPError")
        ELSE Returned(response.val.text)

\* lines 56-62: except Exception -> print, return None
download_site_data(site_num, net) ==
    LET r == download_try(site_num, net)
    IN  IF r.exc # "none" THEN Returned(None) ELSE r

----------------------------------------------------------------------------
(* parse_snow_data *)

\* the value pandas reads from field p of source line i: an empty first
\* field and a field past the end of a short line are NaN; any other field
\* is identified by where it came from
Field(lines, i, p) ==
    IF p > lines[i].n THEN NaN
    ELSE IF p = 1 /\ lines[i].first = "" THEN NaN
    ELSE <<i, p>>

Max(a, b) == IF a >= b THEN a ELSE b

\* pd.read_csv(StringIO(data_text), header=0) on the source lines numbered
\* `header` and `body` (indices into lines): blank lines are skipped; the
\* first data line may be wider than the header, and then its leading
\* fields become the index; a later line wider than that is a ParserError;
\* a shorter line is padded with NaN.  The columns are numbered 1..H here.
read_csv(lines, header, body) ==
    LET H == lines[header].n
        data == SelectSeq(body, LAMBDA i : lines[i] # BlankLine)
        W == IF data = <<>> THEN H ELSE Max(H, lines[data[1]].n)
        lead == W - H
    IN  IF \E k \in 1..Len(data) : lines[data[k]].n > W
        THEN Raised("ParserError")
        ELSE Returned(DataFrame([j \in 1..H |-> j],
                 [k \in 1..Len(data) |->
                     [j \in 1..H |-> Field(lines, data[k], j + lead)]]))

\* line 100, df.columns = new_columns: ValueError on a length mismatch
SetColumns(df, names) ==
    IF Len(df.columns) # Len(names) THEN Raised("ValueError")
    ELSE Returned(DataFrame(names,
             [k \in 1..Len(df.rows) |->
                 [c \in {names[j] : j \in 1..Len(names)} |->
                     LET j == CHOOSE j \in 1..Len(names) : names[j] = c
                     IN  df.rows[k][df.columns[j]]]]))

\* line 103, df['station'] = station: a new last column
AddColumn(df, name, value) ==
    DataFrame(Append(df.columns, name),
              [k \in 1..Len(df.rows) |->
                  [c \in DOMAIN df.rows[k] \cup {name} |->
                      IF c = name THEN value ELSE df.rows[k][c]]])

\* line 106, df[df['water_year'].notna()]
DropNaWaterYear(df) ==
    DataFrame(df.columns, SelectSeq(df.rows, LAMBDA r : r["water_year"] # NaN))

\* lines 72-76: the index of the first line that starts with the marker, 0
\* for None
FindDataStart(lines) ==
    IF \E i \in 1..Len(lines) : StartsWithMarker(lines[i])
    THEN CHOOSE i \in 1..Len(lines) :
             /\ StartsWithMarker(lines[i])
             /\ \A j \in 1..(i - 1) : ~StartsWithMarker(lines[j])
    ELSE 0

\* line 82: lines[data_start + 2:], as indices into lines
SkipDescription(data_start, n) ==
    [k \in 1..Max(0, n - data_start - 1) |-> data_start + 1 + k]

\* lines 64-108
parse_snow_data(raw_data, station) ==
    IF ~Truthy(raw_data) THEN Returned(None)
    ELSE LET lines == raw_data.lines
             data_start == FindDataStart(lines)
         IN  IF data_start = 0 THEN Returned(None)
             ELSE LET csv == read_csv(lines, data_start,
                                      SkipDescription(data_start, Len(lines)))
                  IN  IF csv.exc # "none" THEN csv
                      ELSE LET named == SetColumns(csv.val, new_columns)
                           IN  IF named.exc # "none" THEN named
                               ELSE Returned(DropNaWaterYear(
                                        AddColumn(named.val, "station", station)))

----------------------------------------------------------------------------
(* pivot_to_long_format *)

\* line 123
id_cols == <<"water_year", "station", "site_name", "county", "latitude", "longitude">>

\* line 146
measure_cols == <<"collection_date", "snow_depth_in", "swe_in">>

Range(seq) == {seq[i] : i \in 1..Len(seq)}

\* line 164
month_order(month) ==
    CASE month = "Jan" -> 1 [] month = "Feb" -> 2 [] month = "Mar" -> 3
      [] month = "Apr" -> 4 [] month = "May" -> 5 [] month = "Jun" -> 6

\* the strings that occur as sort keys, in Python's string order
StringOrder ==
    <<"05K04", "06J15", "Apr", "Boulder", "Chaffee", "Feb", "Jan", "Jun", "Mar", "May">>

\* a key that compares as the string does: its position in string order
Ord(v) == CHOOSE i \in 1..Len(StringOrder) : StringOrder[i] = v

\* lexicographic <= on key tuples of equal length
RECURSIVE KeyLeq(_, _)
KeyLeq(a, b) ==
    IF a = <<>> THEN TRUE
    ELSE IF Head(a) < Head(b) THEN TRUE
    ELSE IF Head(a) > Head(b) THEN FALSE
    ELSE KeyLeq(Tail(a), Tail(b))

\* line 166: the sort key of a row
SortKeyByMonthName(r) ==
    <<Ord(r["county"]), Ord(r["station"]), r["water_year"], Ord(r["month"])>>

SortKey(r) ==
    <<Ord(r["county"]), Ord(r["station"]), r["water_year"], r["month_num"]>>

\* DataFrame.sort_values(by): the rows in key order, rows of equal key in
\* their given order; row i goes after the rows that precede it
SortRows(rws) ==
    LET key == [i \in 1..Len(rws) |-> SortKey(rws[i])]
        Before(j, i) == IF key[j] = key[i] THEN j < i ELSE KeyLeq(key[j], key[i])
        pos == [i \in 1..Len(rws) |->
                   1 + Cardinality({j \in 1..Len(rws) : j # i /\ Before(j, i)})]
    IN  [p \in 1..Len(rws) |-> rws[CHOOSE i \in 1..Len(rws) : pos[i] = p]]

\* lines 143-149: one row of month_df: the id columns, the month's three
\* columns under their common names, and the month
MonthRow(r, month) ==
    [water_year |-> r["water_year"],
     station |-> r["station"],
     site_name |-> r["site_name"],
     county |-> r["county"],
     latitude |-> r["latitude"],
     longitude |-> r["longitude"],
     collection_date |-> r[MonthColumns(month)[1]],
     snow_depth_in |-> r[MonthColumns(month)[2]],
     swe_in |-> r[MonthColumns(month)[3]],
     month |-> month]

\* line 152: dropna(subset=[...], how='all') keeps a row unless all three
\* are missing
KeepsAnyRow(r) == TRUE

KeepsRow(r) == \E c \in Range(measure_cols) : r[c] # NaN

\* lines 131-154: month_df of one month
MonthDf(df, month) ==
    SelectSeq([k \in 1..Len(df.rows) |-> MonthRow(df.rows[k], month)], KeepsRow)

\* line 157: pd.concat(monthly_dfs), months in the order of line 126
RECURSIVE ConcatMonths(_, _)
ConcatMonths(df, months) ==
    IF months = <<>> THEN <<>>
    ELSE MonthDf(df, Head(months)) \o ConcatMonths(df, Tail(months))

\* line 165
WithMonthNum(r) ==
    [c \in DOMAIN r \cup {"month_num"} |->
        IF c = "month_num" THEN month_order(r["month"]) ELSE r[c]]

\* line 167: drop('month_num', axis=1)
DropMonthNum(r) == [c \in DOMAIN r \ {"month_num"} |-> r[c]]

long_columns == id_cols \o <<"month">> \o measure_cols

\* the columns df[cols] selects over the six months
pivot_columns == Range(id_cols) \cup (Range(new_columns) \ {"water_year"})

\* lines 110-169; df[cols] raises KeyError when a column is missing
pivot_to_long_format(df) ==
    IF ~(pivot_columns \subseteq Range(df.columns))
    THEN Raised("KeyError")
    ELSE LET long == ConcatMonths(df, month_names)
             keyed == [k \in 1..Len(long) |-> WithMonthNum(long[k])]
             sorted == SortRows(keyed)
         IN  Returned(DataFrame(long_columns,
                 [k \in 1..Len(sorted) |-> DropMonthNum(sorted[k])]))

----------------------------------------------------------------------------
(* get_colorado_sites *)

\* the text of a <td>: a string, with or without surrounding whitespace
Text(str, padded) == [text |-> str, padded |-> padded]

\* str.strip()
Strip(t) == t.text

\* what the directory says of a station: name, latitude, longitude, county
SiteName(s) == IF s = "05K04" THEN "Arrow" ELSE "Bear Lake"

County(s) == IF s = "05K04" THEN "Chaffee" ELSE "Boulder"

Latitude(s) == IF s = "05K04" THEN "39.9" ELSE "40.3"

Longitude(s) == IF s = "05K04" THEN "-105.8" ELSE "-105.6"

\* the ten <td> of a station's row; cells[1], [5], [6], [9] are read
FullCells(s) ==
    <<Text("", FALSE), Text(SiteName(s), TRUE), Text(s, FALSE), Text("", FALSE),
      Text("", FALSE), Text(Latitude(s), FALSE), Text(Longitude(s), FALSE),
      Text("", FALSE), Text("", FALSE), Text(County(s), TRUE)>>

\* a row of fewer cells (a spacer or a sub-heading)
ShortCells == <<Text("", FALSE), Text("", FALSE), Text("", FALSE)>>

\* an <a href>: whether 'station' and 'snowmonth_hist' occur in it, and what
\* station=([^&]+) captures ("" when the pattern does not match)
Link(hasStation, hasHist, param) ==
    [hasStation |-> hasStation, hasHist |-> hasHist, param |-> param]

Links ==
    {Link(TRUE, TRUE, s) : s \in Stations}
    \cup {Link(TRUE, FALSE, "05K04"), Link(TRUE, TRUE, "")}

MaxLinks == 2

LinkSeqs == UNION {[1..n -> Links] : n \in 0..MaxLinks}

TableRows ==
    {[cells |-> c, links |-> l] :
        c \in {FullCells(s) : s \in Stations} \cup {ShortCells}, l \in LinkSeqs}

\* the header row: <th> cells only
HeaderRow == [cells |-> <<>>, links |-> <<>>]

\* lines 40-46
SiteRecord(station, cells) ==
    [station |-> station,
     site_name |-> Strip(cells[2]),
     latitude |-> Strip(cells[6]),
     longitude |-> Strip(cells[7]),
     county |-> Strip(cells[10])]

\* lines 25-46: the links of one row, in order; cells[9] raises IndexError
\* on a row of fewer than ten cells
RECURSIVE ScanLinks(_, _, _)
ScanLinks(cells, links, sites) ==
    IF sites.exc # "none" \/ links = <<>> THEN sites
    ELSE LET link == Head(links)
         IN  IF link.hasStation /\ link.hasHist /\ link.param # ""
             THEN IF Len(cells) < 10 THEN Raised("IndexError")
                  ELSE ScanLinks(cells, Tail(links),
                           Returned(Append(sites.val, SiteRecord(link.param, cells))))
             ELSE ScanLinks(cells, Tail(links), sites)

\* lines 21-46: the rows after the first, in order
RECURSIVE ScanRows(_, _)
ScanRows(rws, sites) ==
    IF sites.exc # "none" \/ rws = <<>> THEN sites
    ELSE ScanRows(Tail(rws), ScanLinks(Head(rws).cells, Head(rws).links, sites))

\* line 48, pd.DataFrame(sites): the columns are the keys of the dicts; an
\* empty list gives a table without columns
SitesFrame(sites) ==
    DataFrame(IF sites = <<>> THEN <<>>
              ELSE <<"station", "site_name", "latitude", "longitude", "county">>,
              sites)

\* lines 8-48; requests.get is outside any try
get_colorado_sites(pg) ==
    IF pg.fetch # "ok" THEN Raised(pg.fetch)
    ELSE IF ~pg.hasTable \/ pg.rows = <<>> THEN Returned(SitesFrame(<<>>))
    ELSE LET sites == ScanRows(Tail(pg.rows), Returned(<<>>))
         IN  IF sites.exc # "none" THEN sites ELSE Returned(SitesFrame(sites.val))

----------------------------------------------------------------------------
(* download_all_colorado_sites *)

\* the parameters of the functions the loop calls (lines 50 and 64)
download_site_data_params == <<"site_num">>

parse_snow_data_params == <<"raw_data", "station">>

\* pd.concat(all_data, ignore_index=True): the rows of the tables, in order
RECURSIVE ConcatRows(_)
ConcatRows(dfs) ==
    IF dfs = <<>> THEN <<>> ELSE Head(dfs).rows \o ConcatRows(Tail(dfs))

Concat(dfs) == DataFrame(Head(dfs).columns, ConcatRows(dfs))

\* lines 180-181: row['site_num'] and row['site_name']; a label that is not
\* a column of the table raises KeyError
RowLookup(row) ==
    IF "site_num" \notin DOMAIN row \/ "site_name" \notin DOMAIN row
    THEN Raised("KeyError")
    ELSE Returned(<<row["site_num"], row["site_name"]>>)

\* an entry of the call log: the function, the station, whether it gave data
Call(fn, station, present) == [fn |-> fn, station |-> station, present |-> present]

LoopOutcome(e, dfs, cs) == [exc |-> e, append |-> dfs, calls |-> cs]

\* lines 185-192, the rest of the loop body, the download meeting `net`: the
\* exception it ends with, the tables it appends to all_data and the calls
\* it makes.  A call with more arguments than parameters raises TypeError.
LoopBody(site_num, site_name, net) ==
    IF Len(<<site_num, site_name>>) # Len(download_site_data_params)
    THEN LoopOutcome("TypeError", <<>>, <<>>)
    ELSE LET raw_data == download_site_data(site_num, net).val
             c1 == <<Call("download_site_data", site_num, Truthy(raw_data))>>
         IN  IF ~Truthy(raw_data) THEN LoopOutcome("none", <<>>, c1)
             ELSE IF Len(<<raw_data, site_num, site_name>>) # Len(parse_snow_data_params)
             THEN LoopOutcome("TypeError", <<>>, c1)
             ELSE LET df == parse_snow_data(raw_data, site_num)
                      c2 == Append(c1, Call("parse_snow_data", site_num,
                                df.exc = "none" /\ df.val # None /\ Len(df.val.rows) > 0))
                  IN  IF df.exc # "none" THEN LoopOutcome(df.exc, <<>>, c2)
                      ELSE IF c2[2].present
                      THEN LoopOutcome("none", <<df.val>>, c2)
                      ELSE LoopOutcome("none", <<>>, c2)

MaxSiteRows == 3

\* the server's directory page gains a table row (before the run reads it)
AddTableRow ==
    /\ pc = "start"
    /\ page.fetch = "ok" /\ page.hasTable
    /\ Len(page.rows) < 1 + MaxSiteRows
    /\ \E r \in (IF page.rows = <<>> THEN {HeaderRow} ELSE TableRows) :
           page' = [page EXCEPT !.rows = Append(@, r)]
    /\ UNCHANGED <<pc, exc, exc_at, sites_df, idx, all_data, retval, writes,
                   calls, dl, ps, pv>>

\* lines 173-177: an exception of get_colorado_sites ends the run
FetchSites ==
    /\ pc = "start"
    /\ LET r == get_colorado_sites(page)
       IN  IF r.exc # "none"
           THEN /\ pc' = "raised"
                /\ exc' = r.exc
                /\ exc_at' = "directory"
                /\ UNCHANGED sites_df
           ELSE /\ pc' = "loop"
                /\ sites_df' = r.val
                /\ UNCHANGED <<exc, exc_at>>
    /\ UNCHANGED <<page, idx, all_data, retval, writes, calls, dl, ps, pv>>

\* lines 179-195: the loop body for the next row of sites_df
ProcessStation ==
    /\ pc = "loop"
    /\ idx < Len(sites_df.rows)
    /\ LET names == RowLookup(sites_df.rows[idx + 1])
       IN  IF names.exc # "none"
           THEN /\ pc' = "raised"
                /\ exc' = names.exc
                /\ exc_at' = "station"
                /\ UNCHANGED <<idx, all_data, calls>>
           ELSE \E net \in NetOutcomes :
                   LET o == LoopBody(names.val[1], names.val[2], net)
                   IN  /\ calls' = calls \o o.calls
                       /\ IF o.exc # "none"
                          THEN /\ pc' = "raised"
                               /\ exc' = o.exc
                               /\ exc_at' = "station"
                               /\ UNCHANGED <<idx, all_data>>
                          ELSE /\ all_data' = all_data \o o.append
                               /\ idx' = idx + 1
                               /\ UNCHANGED <<pc, exc, exc_at>>
    /\ UNCHANGED <<page, sites_df, retval, writes, dl, ps, pv>>

\* lines 197-206, after the loop
Finish ==
    /\ pc = "loop"
    /\ idx = Len(sites_df.rows)
    /\ pc' = "returned"
    /\ IF all_data # <<>>
       THEN /\ writes' = Append(writes, Concat(all_data))
            /\ retval' = Concat(all_data)
       ELSE /\ retval' = None
            /\ UNCHANGED writes
    /\ UNCHANGED <<page, exc, exc_at, sites_df, idx, all_data, calls, dl, ps, pv>>

DlIdle == [calls |-> 0, requests |-> 0, site_num |-> "", net |-> None, ret |-> Returned(None)]

PsIdle == [pc |-> "idle", raw |-> None, station |-> "", ret |-> Returned(None)]

PvIdle == [pc |-> "idle", df |-> None, present |-> 0, ret |-> Returned(None)]

AggIdle ==
    /\ page = [fetch |-> "ok", hasTable |-> FALSE, rows |-> <<>>]
    /\ pc = "idle"
    /\ exc = "none"
    /\ exc_at = "none"
    /\ sites_df = SitesFrame(<<>>)
    /\ idx = 0
    /\ all_data = <<>>
    /\ retval = None
    /\ writes = <<>>
    /\ calls = <<>>

\* the run starts against some directory page: served or not, with or
\* without a table
Init ==
    /\ page \in {[fetch |-> f, hasTable |-> t, rows |-> <<>>] :
                    f \in {"ok", "ConnectionError"}, t \in BOOLEAN}
    /\ pc = "start"
    /\ exc = "none"
    /\ exc_at = "none"
    /\ sites_df = SitesFrame(<<>>)
    /\ idx = 0
    /\ all_data = <<>>
    /\ retval = None
    /\ writes = <<>>
    /\ calls = <<>>
    /\ dl = DlIdle
    /\ ps = PsIdle
    /\ pv = PvIdle

Next == AddTableRow \/ FetchSites \/ ProcessStation \/ Finish

Spec == Init /\ [][Next]_vars

----------------------------------------------------------------------------
(* download_site_data on its own: calls against every network outcome *)

MaxCalls == 3

DlCall ==
    /\ dl.calls < MaxCalls
    /\ \E s \in Stations, net \in NetOutcomes :
           dl' = [calls |-> dl.calls + 1,
                  requests |-> dl.requests + 1,     \* line 57, the only request
                  site_num |-> s,
                  net |-> net,
                  ret |-> download_site_data(s, net)]
    /\ UNCHANGED <<aggVars, ps, pv>>

InitDownload == AggIdle /\ dl = DlIdle /\ ps = PsIdle /\ pv = PvIdle

NextDownload == DlCall

SpecDownload == InitDownload /\ [][NextDownload]_vars

----------------------------------------------------------------------------
(* parse_snow_data on its own: calls on every text of up to MaxLines lines *)

MaxLines == 4

\* the text under construction gains a line
PsAppendLine ==
    /\ ps.pc = "input"
    /\ (IF ps.raw = None THEN 0 ELSE Len(ps.raw.lines)) < MaxLines
    /\ \E l \in Lines :
           ps' = [ps EXCEPT !.raw = IF ps.raw = None THEN Str(<<l>>)
                                    ELSE Str(Append(ps.raw.lines, l))]
    /\ UNCHANGED <<aggVars, dl, pv>>

PsCall ==
    /\ ps.pc = "input"
    /\ \E s \in Stations :
           ps' = [ps EXCEPT !.pc = "done", !.station = s,
                            !.ret = parse_snow_data(ps.raw, s)]
    /\ UNCHANGED <<aggVars, dl, pv>>

InitParse ==
    AggIdle /\ dl = DlIdle /\ pv = PvIdle /\ ps = [PsIdle EXCEPT !.pc = "input"]

NextParse == PsAppendLine \/ PsCall

SpecParse == InitParse /\ [][NextParse]_vars

----------------------------------------------------------------------------
(* pivot_to_long_format on its own: calls on every wide table of up to     *)
(* MaxWideRows rows, one per station and water year, with up to MaxPresent *)
(* measurements present                                                    *)

MaxWideRows == 2

MaxPresent == 2

\* the station and water year of the rows a table is built from
WideKeys == {<<"05K04", 2001>>, <<"05K04", 2002>>, <<"06J15", 2001>>}

\* the columns of a wide table that carries the station's metadata
wide_columns ==
    new_columns \o <<"station", "site_name", "county", "latitude", "longitude">>

\* the months in which the tables built here carry measurements: calendar
\* order Jan, Feb, Apr is the reverse of their order as strings
MeasuredMonths == {"Jan", "Feb", "Apr"}

measured_columns == UNION {Range(MonthColumns(m)) : m \in MeasuredMonths}

\* a wide row of station s and year wy, no measurement present
EmptyWideRow(s, wy) ==
    [c \in Range(wide_columns) |->
        CASE c = "water_year" -> wy
          [] c = "station" -> s
          [] c = "site_name" -> SiteName(s)
          [] c = "county" -> County(s)
          [] c = "latitude" -> Latitude(s)
          [] c = "longitude" -> Longitude(s)
          [] OTHER -> NaN]

PvAddRow ==
    /\ pv.pc = "input"
    /\ Len(pv.df.rows) < MaxWideRows
    /\ \E key \in WideKeys :
           \* one row per station and water year
           /\ \A k \in 1..Len(pv.df.rows) :
                  <<pv.df.rows[k]["station"], pv.df.rows[k]["water_year"]>> # key
           /\ pv' = [pv EXCEPT !.df.rows = Append(@, EmptyWideRow(key[1], key[2]))]
    /\ UNCHANGED <<aggVars, dl, ps>>

\* a measurement of the table becomes present
PvSetCell ==
    /\ pv.pc = "input"
    /\ pv.present < MaxPresent
    /\ \E k \in 1..Len(pv.df.rows), c \in measured_columns :
           /\ pv.df.rows[k][c] = NaN
           /\ pv' = [pv EXCEPT !.df.rows[k][c] = "value", !.present = @ + 1]
    /\ UNCHANGED <<aggVars, dl, ps>>

PvCall ==
    /\ pv.pc = "input"
    /\ pv' = [pv EXCEPT !.pc = "done", !.ret = pivot_to_long_format(pv.df)]
    /\ UNCHANGED <<aggVars, dl, ps>>

InitPivot ==
    /\ AggIdle /\ dl = DlIdle /\ ps = PsIdle
    /\ pv = [pc |-> "input", df |-> DataFrame(wide_columns, <<>>), present |-> 0,
             ret |-> Returned(None)]

NextPivot == PvAddRow \/ PvSetCell \/ PvCall

SpecPivot == InitPivot /\ [][NextPivot]_vars

----------------------------------------------------------------------------
(* Properties of download_all_colorado_sites, checked under Spec *)

\* get_colorado_sites has returned
FetchedDirectory == pc \in {"loop", "returned"} \/ (pc = "raised" /\ exc_at = "station")

\* the run over a fetched directory has ended, normally or not
RunEnded == pc = "returned" \/ (pc = "raised" /\ exc_at = "station")

CallsOf(fn) == SelectSeq(calls, LAMBDA c : c.fn = fn)

\* the stations whose download succeeded and whose report gave data
Yielded == {c.station : c \in {d \in Range(calls) : d.fn = "parse_snow_data" /\ d.present}}

StationsIn(v) == IF v = None THEN {} ELSE {v.rows[k]["station"] : k \in 1..Len(v.rows)}

DirectoryOrder == [k \in 1..Len(sites_df.rows) |-> sites_df.rows[k]["station"]]

\* C1: over a non-empty directory the run processes every station, ends
\* normally whatever downloads fail, and the combined table holds data
\* from exactly the stations whose download succeeded and gave data.
C1_FailureIsolation ==
    (RunEnded /\ sites_df.rows # <<>>) =>
        /\ pc = "returned"
        /\ idx = Len(sites_df.rows)
        /\ Len(CallsOf("download_site_data")) = Len(sites_df.rows)
        /\ StationsIn(retval) = Yielded

\* C2: when no station yields data the run returns None and writes no
\* file; the file is written at most once, and only after every station
\* has been processed.
C2_NoDataNoFile ==
    /\ Len(writes) <= 1
    /\ writes # <<>> => (pc = "returned" /\ idx = Len(sites_df.rows))
    /\ (RunEnded /\ Yielded = {}) =>
           (pc = "returned" /\ retval = None /\ writes = <<>>)

\* C3: stations are taken in directory order, each is downloaded, parsed
\* when data is present and pivoted; every table appended to all_data is a
\* long-format table and the combined table is their concatenation in order.
C3_PipelineOrder ==
    RunEnded =>
        /\ pc = "returned"
        /\ [k \in 1..Len(CallsOf("download_site_data")) |->
               CallsOf("download_site_data")[k].station] = DirectoryOrder
        /\ \A k \in 1..Len(all_data) : all_data[k].columns = long_columns
        /\ all_data # <<>> => retval = Concat(all_data)

\* C9: a failure while processing a station (such as a malformed data
\* block) never escapes the per-station boundary: only the directory fetch
\* can end the run with an exception, and no station is downloaded twice.
C9_MalformedIsSkipped ==
    /\ pc = "raised" => exc_at = "directory"
    /\ Len(CallsOf("download_site_data")) <= Len(sites_df.rows)
    /\ pc = "returned" => idx = Len(sites_df.rows)

\* a link that matches the station-report pattern
Matches(link) == link.hasStation /\ link.hasHist /\ link.param # ""

HasMatch(row) == \E i \in 1..Len(row.links) : Matches(row.links[i])

FirstMatch(row) ==
    row.links[CHOOSE i \in 1..Len(row.links) :
                  /\ Matches(row.links[i])
                  /\ \A j \in 1..(i - 1) : ~Matches(row.links[j])].param

\* the non-header rows that carry a matching link, in page order
MatchingRows == SelectSeq(Tail(page.rows), HasMatch)

\* C10: get_colorado_sites returns, in page order, one record for each
\* non-header row whose link matches and none for the other rows; station
\* identifiers are unique when each station has one directory row.
C10_OneRecordPerRow ==
    (FetchedDirectory /\ page.rows # <<>>) =>
        /\ DirectoryOrder = [k \in 1..Len(MatchingRows) |-> FirstMatch(MatchingRows[k])]
        /\ (\A i, j \in 1..Len(MatchingRows) :
                FirstMatch(MatchingRows[i]) = FirstMatch(MatchingRows[j]) => i = j)
           => (\A i, j \in 1..Len(sites_df.rows) :
                  DirectoryOrder[i] = DirectoryOrder[j] => i = j)

----------------------------------------------------------------------------
(* Properties of download_site_data, checked under SpecDownload *)

IsResponse(net) == net.kind = "response"

\* the request failed: no response, or a response with a 4xx or 5xx status
RequestFailed(net) ==
    IF IsResponse(net) THEN net.status \in 400..599 ELSE TRUE

\* the request gave a response with a 2xx status
Status2xx(net) == IF IsResponse(net) THEN net.status \in 200..299 ELSE FALSE

\* C8 (amended): every call issues exactly one request and never raises; it
\* returns None when the request timed out, could not connect or was
\* answered with a 4xx or 5xx status, and the response text otherwise.
C8_AbsentOnRequestError ==
    dl.calls > 0 =>
        /\ dl.ret.exc = "none"
        /\ dl.requests = dl.calls
        /\ dl.ret.val = (IF RequestFailed(dl.net) THEN None ELSE dl.net.text)

\* C8 as stated: None on every non-2xx status, the text only on a 2xx status.
C8_AbsentOnNon2xx ==
    dl.calls > 0 =>
        /\ dl.ret.exc = "none"
        /\ dl.requests = dl.calls
        /\ dl.ret.val = (IF Status2xx(dl.net) THEN dl.net.text ELSE None)

\* a call that met a 404 and returned None, after a call before it
C8_Witness ==
    /\ dl.calls = 2
    /\ IsResponse(dl.net) /\ dl.net.status = 404
    /\ dl.ret = Returned(None)

----------------------------------------------------------------------------
(* Properties of parse_snow_data, checked under SpecParse *)

BeginsWithMarker(line) == line.first = "Water Year" /\ line.n >= 2

NoMarkerLine(raw) ==
    raw = None \/ \A i \in 1..Len(raw.lines) : ~BeginsWithMarker(raw.lines[i])

\* C6: for a text (None and '' included) in which no line begins with
\* 'Water Year,', parse_snow_data returns None and raises nothing.
C6_NoMarkerGivesNone ==
    (ps.pc = "done" /\ NoMarkerLine(ps.raw)) => ps.ret = Returned(None)

\* a text of several lines, one of them ' Water Year,...' with a leading
\* blank, parsed to None
C6_Witness ==
    /\ ps.pc = "done"
    /\ ps.raw # None
    /\ Len(ps.raw.lines) >= 3
    /\ NoMarkerLine(ps.raw)
    /\ \E i \in 1..Len(ps.raw.lines) :
           ps.raw.lines[i].first = " Water Year" /\ ps.raw.lines[i].n >= 2
    /\ ps.ret = Returned(None)

MarkerIndex(lines) ==
    CHOOSE i \in 1..Len(lines) :
        /\ BeginsWithMarker(lines[i])
        /\ \A j \in 1..(i - 1) : ~BeginsWithMarker(lines[j])

\* the source data lines with a water year, from two lines after the marker
YearLines(lines) ==
    SelectSeq([k \in 1..Max(0, Len(lines) - MarkerIndex(lines) - 1) |->
                  MarkerIndex(lines) + 1 + k],
              LAMBDA i : lines[i].first # "")

\* the row a source line stands for: column j holds the line's field j
AlignedRow(lines, i, station) ==
    [c \in Range(new_columns) \cup {"station"} |->
        IF c = "station" THEN station
        ELSE LET j == CHOOSE j \in 1..Len(new_columns) : new_columns[j] = c
             IN  IF j <= lines[i].n THEN <<i, j>> ELSE NaN]

\* C7: for a text with the marker line, parse_snow_data either returns the
\* table of the columns water_year, date/snow depth/SWE of Jan..Jun, station
\* (the columns the claim lists; they number twenty, the claim counts
\* nineteen) with one aligned row per source line that has a water year,
\* each tagged with the station, or it fails with an error: it never
\* returns a misaligned table.
C7_TableOrError ==
    (ps.pc = "done" /\ ~NoMarkerLine(ps.raw)) =>
        \/ ps.ret.exc # "none"
        \/ /\ ps.ret.val # None
           /\ ps.ret.val.columns = new_columns \o <<"station">>
           /\ ps.ret.val.rows =
                  [k \in 1..Len(YearLines(ps.raw.lines)) |->
                      AlignedRow(ps.raw.lines, YearLines(ps.raw.lines)[k], ps.station)]

----------------------------------------------------------------------------
(* Properties of pivot_to_long_format, checked under SpecPivot *)

LongRows == pv.ret.val.rows

\* the long row that wide row r and month m stand for
LongRowOf(r, m) ==
    [c \in Range(long_columns) |->
        CASE c = "month" -> m
          [] c = "collection_date" -> r[m \o "_date"]
          [] c = "snow_depth_in" -> r[m \o "_snow_depth_in"]
          [] c = "swe_in" -> r[m \o "_swe_in"]
          [] OTHER -> r[c]]

AllAbsent(r) ==
    r["collection_date"] = NaN /\ r["snow_depth_in"] = NaN /\ r["swe_in"] = NaN

\* C4: the output holds exactly one row for each (wide row, month) with a
\* date, snow depth or SWE present, and never a row with all three absent.
C4_OneRowPerMeasuredMonth ==
    pv.pc = "done" =>
        LET pairs == (1..Len(pv.df.rows)) \X Range(month_names)
            want == [p \in pairs |-> LongRowOf(pv.df.rows[p[1]], p[2])]
        IN  /\ pv.ret.exc = "none"
            /\ \A i \in 1..Len(LongRows) :
                   /\ ~AllAbsent(LongRows[i])
                   /\ \E p \in pairs : LongRows[i] = want[p]
            /\ \A p \in pairs :
                   Cardinality({i \in 1..Len(LongRows) : LongRows[i] = want[p]})
                       = IF AllAbsent(want[p]) THEN 0
                         ELSE Cardinality({q \in pairs : want[q] = want[p]})

\* two wide rows, of which two months are kept and the other ten dropped
C4_Witness ==
    /\ pv.pc = "done"
    /\ Len(pv.df.rows) = 2
    /\ Len(LongRows) = 2
    /\ LongRows[1]["water_year"] # LongRows[2]["water_year"]

\* Jan..Jun as 1..6
MonthNumber(m) == CHOOSE p \in 1..Len(month_names) : month_names[p] = m

OrderKey(r) ==
    <<Ord(r["county"]), Ord(r["station"]), r["water_year"], MonthNumber(r["month"])>>

\* C5: the output is ordered by county, station, water year and month in the
\* order Jan < Feb < Mar < Apr < May < Jun, and has no month-order column.
C5_SortedByCalendarMonth ==
    pv.pc = "done" =>
        /\ pv.ret.exc = "none"
        /\ "month_num" \notin Range(pv.ret.val.columns)
        /\ \A i \in 1..Len(LongRows) : "month_num" \notin DOMAIN LongRows[i]
        /\ \A i, j \in 1..Len(LongRows) :
               i < j => KeyLeq(OrderKey(LongRows[i]), OrderKey(LongRows[j]))

\* Jan before Apr for one station and year: the reverse of name order
C5_Witness ==
    /\ pv.pc = "done"
    /\ Len(LongRows) = 2
    /\ LongRows[1]["month"] = "Jan" /\ LongRows[2]["month"] = "Apr"
    /\ LongRows[1]["station"] = LongRows[2]["station"]
    /\ LongRows[1]["water_year"] = LongRows[2]["water_year"]

=============================================================================
